---- MODULE Spec2Model ----
(***************************************************************************)
(* A model of the kvs log-structured key-value store (src/src/lib.rs).     *)
(*                                                                         *)
(* The log file is modelled byte for byte as a TLA+ string holding the     *)
(* RON text the store writes, one record per line.  Offsets are byte       *)
(* offsets into that string, as in the code.  Every public operation       *)
(* (open, set, get, remove) is one action; the private helpers             *)
(* (build_map, fetch_value, compaction) are operators on a store record    *)
(* that the actions compose, so that an action is the whole call.          *)
(***************************************************************************)
EXTENDS Integers, Sequences, FiniteSets, TLC

VARIABLES
    file,           \* content of the .kvs_store file (a string of bytes)
    pos,            \* cursor of file_handle (byte offset, 0-based)
    map,            \* KvStore.map: key -> byte offset
    is_build,       \* KvStore.is_build
    count_of_set,   \* KvStore.count_of_set
    ret,            \* the last call and what it returned
    expect,         \* history: per key, the results a plain map allows for get
    len_at_open,    \* history: number of records in the log at the last open
                    \* (kept by SpecOneKey, which bounds the log by it)
    failed,         \* history: number of calls that returned an I/O error
    set_calls,      \* history: number of sets that returned Ok since the last
                    \* open, counted modulo Threshold + 1
    replays         \* history: number of replays of the log since the last
                    \* open, and since the last open or compaction (kept by
                    \* SpecOneKey, counted up to MaxReplaysNoted)

vars == <<file, pos, map, is_build, count_of_set, ret, expect, len_at_open,
          failed, set_calls, replays>>

(***************************************************************************)
(* Bounds of the model and program constants.                              *)
(***************************************************************************)
\* The keys and values the operations are called with.  Their lengths
\* differ so that records have different encoded lengths.
Keys == {"a", "bb"}
Values == {"1", "22"}

\* Largest number of records in the log at which set and remove are still
\* called (the log is unbounded across sessions).
MaxLog == 4

\* The same for the sessions on a single key and value of SpecOneKey.
MaxLogOneKey == 9

\* The same for the calls with failing I/O of SpecIO, and the number of
\* calls in which an I/O step fails.
MaxLogIO == 3
MaxFailures == 1

\* Longest log (in records) of which SpecReplay checks the replay.
MaxReplayLen == 4

\* The replays of a session are counted up to this number.
MaxReplaysNoted == 2

\* lib.rs line 108 compares count_of_set with 100.  The model runs the same
\* comparison against a smaller threshold so that the log that triggers
\* compaction stays small enough to enumerate; every formula below is
\* stated in terms of Threshold.
Threshold == 2

\* Capacity of std::io::BufReader::new: one fill reads up to this many bytes.
\* The library's capacity is 8192; the model uses a capacity that is still
\* longer than every record but shorter than the logs it enumerates, so
\* that a fetch leaves the cursor inside the file as it does on a log of
\* more than 8192 bytes.
BufCapacity == 32

Min(a, b) == IF a < b THEN a ELSE b

(***************************************************************************)
(* Results of the public calls.                                            *)
(***************************************************************************)
Ok == <<"Ok">>
None == <<"None">>
Some(v) == <<"Some", v>>
KeyNotFound(k) == <<"Err", "KeyNotFound", k>>
\* impl From<std::io::Error>: every I/O error becomes FileOpenError.
FileOpenError == <<"Err", "FileOpenError">>
\* impl From<ron::Error>
CommandConvertError == <<"Err", "CommandConvertError">>
UnknownError == <<"Err", "UnknownError">>

IsErr(out) == out[1] = "Err"

(***************************************************************************)
(* Command and its RON text.                                               *)
(***************************************************************************)
SetCmd(k, v) == [type |-> "Set", key |-> k, value |-> v]
RemoveCmd(k) == [type |-> "Remove", key |-> k]

\* ron::to_string(&cmd)
to_string(cmd) ==
    IF cmd.type = "Set"
    THEN "Set(key:\"" \o cmd.key \o "\",value:\"" \o cmd.value \o "\")"
    ELSE "Remove(key:\"" \o cmd.key \o "\")"

\* ron::to_string(&cmd) followed by cmd.push('\n')
Line(cmd) == to_string(cmd) \o "\n"

\* Position (1-based) of the first occurrence of the byte c in s at or
\* after position from, 0 when there is none.  The bytes are scanned a
\* few at a time.
RECURSIVE Find(_, _, _)
Find(s, c, from) ==
    IF from > Len(s) THEN 0
    ELSE LET hi == Min(Len(s), from + 7)
             at == {i \in from..hi : SubSeq(s, i, i) = c}
         IN  IF at = {} THEN Find(s, c, hi + 1)
             ELSE CHOOSE i \in at : \A j \in at : i <= j

StartsWith(s, p) == Len(s) >= Len(p) /\ SubSeq(s, 1, Len(p)) = p

Rest(s, from) == IF from > Len(s) THEN "" ELSE SubSeq(s, from, Len(s))

\* What may follow the closing parenthesis of a command: RON skips
\* trailing white space.
IsTrailer(s) == s = "" \/ s = "\n"

\* A quoted string of s whose opening quote is at position q and whose
\* closing quote is at position e: its text and the position after the
\* closing quote; next = 0 when there is no such string.
QuotedTo(s, q, e) ==
    IF q > Len(s) \/ SubSeq(s, q, q) # "\"" \/ e = 0
    THEN [next |-> 0, text |-> ""]
    ELSE [next |-> e + 1, text |-> SubSeq(s, q + 1, e - 1)]

Quoted(s, q) == QuotedTo(s, q, Find(s, "\"", q + 1))

Malformed == [ok |-> FALSE, cmd |-> RemoveCmd("")]

\* from_str behind Set(key:"k",value: with v the quoted value
SetClosed(s, k, v) ==
    IF v.next = 0 \/ ~StartsWith(Rest(s, v.next), ")")
       \/ ~IsTrailer(Rest(s, v.next + 1))
    THEN Malformed
    ELSE [ok |-> TRUE, cmd |-> SetCmd(k.text, v.text)]

\* from_str behind Set(key: with k the quoted key
SetKeyed(s, k) ==
    IF k.next = 0 \/ ~StartsWith(Rest(s, k.next), ",value:")
    THEN Malformed
    ELSE SetClosed(s, k, Quoted(s, k.next + 7))

\* from_str behind Remove(key: with k the quoted key
RemoveKeyed(s, k) ==
    IF k.next = 0 \/ ~StartsWith(Rest(s, k.next), ")")
       \/ ~IsTrailer(Rest(s, k.next + 1))
    THEN Malformed
    ELSE [ok |-> TRUE, cmd |-> RemoveCmd(k.text)]

\* ron::from_str::<Command>(&line)
from_str(s) ==
    IF StartsWith(s, "Set(key:") THEN SetKeyed(s, Quoted(s, 9))
    ELSE IF StartsWith(s, "Remove(key:") THEN RemoveKeyed(s, Quoted(s, 12))
    ELSE Malformed

(***************************************************************************)
(* The file handle: seek, read_line through a BufReader, write_all,        *)
(* set_len.                                                                *)
(***************************************************************************)
LineTo(f, p, nl) == SubSeq(f, p + 1, IF nl = 0 THEN Len(f) ELSE nl)

\* BufRead::read_line from byte offset p: the bytes up to and including
\* the next newline, or up to end of file; "" at or past end of file.
read_line(f, p) ==
    IF p >= Len(f) THEN "" ELSE LineTo(f, p, Find(f, "\n", p + 1))

\* Where the cursor of the underlying file is after a BufReader that was
\* created with the cursor at p has served one read_line: it fills its
\* buffer with up to BufCapacity bytes in one read.
CursorAfterFill(f, p) ==
    IF p >= Len(f) THEN p ELSE Min(p + BufCapacity, Len(f))

\* n zero bytes: what a write past end of file leaves in the gap.
RECURSIVE Zeros(_)
Zeros(n) == IF n <= 0 THEN "" ELSE "0" \o Zeros(n - 1)

\* File::write_all(bytes) on content f with the cursor at p: the content
write_at(f, p, bytes) ==
    (IF p = 0 THEN ""
     ELSE IF p > Len(f) THEN f \o Zeros(p - Len(f))
     ELSE SubSeq(f, 1, p))
    \o bytes \o Rest(f, p + Len(bytes) + 1)

(***************************************************************************)
(* The store: struct KvStore together with the file behind file_handle.    *)
(***************************************************************************)
Store == [file |-> file, pos |-> pos, map |-> map, is_build |-> is_build,
          count_of_set |-> count_of_set]

\* HashMap::new, insert, remove
EmptyMap == [x \in {} |-> 0]
\* Faulty variant: the index is not updated.
insert_skipped(m, k, off) == m

insert(m, k, off) == [x \in DOMAIN m \cup {k} |-> IF x = k THEN off ELSE m[x]]

\* Faulty variant: the key is looked up but never taken out of the map.
remove_key_kept(m, k) == m

remove_key(m, k) == [x \in DOMAIN m \ {k} |-> m[x]]

\* The single I/O steps that can fail.  A call is given the step that
\* fails in it ("none" for a call in which all I/O works); a failing step
\* has no effect and the call returns the error at once (the ? operator).
FailPoints == {"seek_end", "write", "replay_seek", "replay_read",
               "fetch_seek", "fetch_read", "set_len", "compact_seek",
               "compact_write"}

Result(st, out) == [st |-> st, out |-> out]

\* Faulty variant: a Set record does not override an entry the key already has.
apply_first_wins(m, cmd, cur_offset) ==
    IF cmd.type = "Set"
    THEN (IF cmd.key \in DOMAIN m THEN m ELSE insert(m, cmd.key, cur_offset))
    ELSE remove_key(m, cmd.key)

\* Faulty variant: the running offset is advanced before the record is applied,
\* so a Set is entered with the offset of the record behind it.
apply_end_offset(m, cmd, cur_offset) ==
    IF cmd.type = "Set"
    THEN insert(m, cmd.key, cur_offset + Len(Line(cmd)))
    ELSE remove_key(m, cmd.key)

\* The match of build_map's loop: Set inserts the record's offset, Remove
\* removes the key.
apply(m, cmd, cur_offset) ==
    IF cmd.type = "Set" THEN insert(m, cmd.key, cur_offset)
    ELSE remove_key(m, cmd.key)

\* The loop of build_map: one read_line and one record per round, the
\* running offset advanced by the length of the line read.  ok is FALSE
\* when a line does not decode.
RECURSIVE replay(_, _, _)
replay_cmd(f, m, cur_offset, offset, c) ==
    IF ~c.ok THEN [map |-> m, ok |-> FALSE]
    ELSE replay(f, apply(m, c.cmd, cur_offset), cur_offset + offset)

replay_line(f, m, cur_offset, cmd) ==
    IF Len(cmd) = 0 THEN [map |-> m, ok |-> TRUE]
    ELSE replay_cmd(f, m, cur_offset, Len(cmd), from_str(cmd))

replay(f, m, cur_offset) == replay_line(f, m, cur_offset, read_line(f, cur_offset))

\* Faulty variant: a replay leaves the index marked as not built.
flag_after_replay_unset == FALSE

\* What a replay that reached the end of the log leaves in is_build.
flag_after_replay == TRUE

\* Faulty variant: a replay also zeroes the write counter.
replayed_counter_reset(st, r) ==
    IF r.ok
    THEN Result([st EXCEPT !.map = r.map, !.pos = Len(st.file),
                           !.is_build = TRUE, !.count_of_set = 0], Ok)
    ELSE Result([st EXCEPT !.map = r.map,
                           !.pos = CursorAfterFill(st.file, 0)],
                CommandConvertError)

\* build_map once the loop has ended with r
replayed(st, r) ==
    IF r.ok
    THEN Result([st EXCEPT !.map = r.map, !.pos = Len(st.file),
                           !.is_build = flag_after_replay], Ok)
    ELSE Result([st EXCEPT !.map = r.map,
                           !.pos = CursorAfterFill(st.file, 0)],
                CommandConvertError)

\* KvStore::build_map
build_map(st, fail) ==
    IF st.is_build THEN Result(st, Ok)
    ELSE IF fail = "replay_seek" THEN Result(st, FileOpenError)
    ELSE IF fail = "replay_read"
    THEN Result([st EXCEPT !.pos = 0], FileOpenError)
    ELSE replayed(st, replay(st.file, st.map, 0))

\* fetch_value once the line is read and decoded into c
decoded(st, c) ==
    IF ~c.ok THEN Result(st, CommandConvertError)
    ELSE IF c.cmd.type = "Set" THEN Result(st, Some(c.cmd.value))
    ELSE Result(st, UnknownError)

\* KvStore::fetch_value
fetch_value(st, offset, fail) ==
    IF fail = "fetch_seek" THEN Result(st, FileOpenError)
    ELSE IF fail = "fetch_read"
    THEN Result([st EXCEPT !.pos = offset], FileOpenError)
    ELSE decoded([st EXCEPT !.pos = CursorAfterFill(st.file, offset)],
                 from_str(read_line(st.file, offset)))

\* Faulty variant: the seek is left out and the cursor stays where it was.
seek_end_skipped(st) == st.pos

\* SeekFrom::End(0), SeekFrom::Start(p): the new cursor
seek_end(st) == Len(st.file)

\* Faulty variant: the seek is left out and the cursor stays where it was.
seek_start_skipped(st, p) == st.pos

seek_start(st, p) == p

\* Faulty variant: the file is not cut before the compacted content is written.
set_len_skipped(st, n) == st

\* File::set_len(n) for n = 0: the content is cut, the cursor stays
set_len(st, n) == [st EXCEPT !.file = IF n = 0 THEN "" ELSE SubSeq(@, 1, n)]

\* File::write_all at the cursor, which ends behind the bytes written
write_all(st, bytes) ==
    [st EXCEPT !.file = write_at(st.file, st.pos, bytes),
               !.pos = st.pos + Len(bytes)]

\* The orders in which a HashMap over the keys may be iterated.
Orders ==
    {o \in [1..Cardinality(Keys) -> Keys] :
        \A i, j \in 1..Cardinality(Keys) : i # j => o[i] # o[j]}

\* self.map.iter() collected: the keys of the map in iteration order
entries(m, order) == SelectSeq(order, LAMBDA k : k \in DOMAIN m)

\* The for loop of compaction: fetch each entry's value and append a fresh
\* Set record to the buffer.
RECURSIVE collect(_, _, _, _)
collected(es, buf, fail, r) ==
    IF IsErr(r.out) THEN [st |-> r.st, out |-> r.out, buf |-> buf]
    ELSE collect(r.st, Tail(es),
                 buf \o Line(SetCmd(Head(es), r.out[2])), fail)

collect(st, es, buf, fail) ==
    IF es = << >> THEN [st |-> st, out |-> Ok, buf |-> buf]
    ELSE collected(es, buf, fail, fetch_value(st, st.map[Head(es)], fail))

\* Faulty variant: compaction leaves the index marked as built.
flag_after_compaction_kept == TRUE

\* What compaction leaves in is_build.
flag_after_compaction == FALSE

\* compaction once the file is cut (st) and the buffer is ready
rewrite_cut(st, buf, fail) ==
    IF fail = "compact_seek" THEN Result(st, FileOpenError)
    ELSE IF fail = "compact_write"
    THEN Result([st EXCEPT !.pos = seek_start(st, 0)], FileOpenError)
    ELSE Result([write_all([st EXCEPT !.pos = seek_start(st, 0)], buf)
                    EXCEPT !.is_build = flag_after_compaction],
                Ok)

\* The tail of compaction: set_len(0), seek(Start(0)), write_all(buffer),
\* is_build = false.
rewrite(st, buf, fail) ==
    IF fail = "set_len" THEN Result(st, FileOpenError)
    ELSE rewrite_cut(set_len(st, 0), buf, fail)

\* compaction once the loop has ended with c
compact_collected(c, fail) ==
    IF IsErr(c.out) THEN Result(c.st, c.out)
    ELSE rewrite(c.st, c.buf, fail)

\* compaction once build_map has returned b
compact_built(b, order, fail) ==
    IF IsErr(b.out) THEN b
    ELSE compact_collected(
             collect(b.st, entries(b.st.map, order), "", fail), fail)

\* KvStore::compaction
compaction(st, order, fail) == compact_built(build_map(st, fail), order, fail)

\* Faulty variant: the comparison never holds and compaction never runs.
over_threshold_never(n) == n < 0

\* Faulty variant: the comparison is >= and compaction runs one set earlier.
over_threshold_early(n) == n >= Threshold

\* self.count_of_set > 100, against the model's threshold
over_threshold(n) == n > Threshold

\* Faulty variant: the counter is not reset after compaction.
set_compacted_counting(c) == c

\* set once compaction has returned c
set_compacted(c) ==
    IF IsErr(c.out) THEN c
    ELSE Result([c.st EXCEPT !.count_of_set = 0], Ok)

\* set once the record is written and the map and the counter are updated
set_counted(st, order, fail) ==
    IF over_threshold(st.count_of_set)
    THEN set_compacted(compaction(st, order, fail))
    ELSE Result(st, Ok)

\* set once the record is written at the cursor st.pos (offset), the map
\* holds the key at offset and the counter is incremented
set_written(st, key, value) ==
    [write_all(st, Line(SetCmd(key, value))) EXCEPT
        !.map = insert(@, key, st.pos),
        !.count_of_set = @ + 1]

\* set once the cursor is at the end of the file: st.pos is offset
set_at(st, key, value, order, fail) ==
    IF fail = "write" THEN Result(st, FileOpenError)
    ELSE set_counted(set_written(st, key, value), order, fail)

\* KvStore::set
set(st, key, value, order, fail) ==
    IF fail = "seek_end" THEN Result(st, FileOpenError)
    ELSE set_at([st EXCEPT !.pos = seek_end(st)], key, value, order, fail)

\* The store in which a set(key, value) on st reaches line 108, with all
\* I/O working.
Written(st, key, value) ==
    set_written([st EXCEPT !.pos = seek_end(st)], key, value)

\* get once build_map has returned b
get_built(b, key, fail) ==
    IF IsErr(b.out) THEN b
    ELSE IF key \in DOMAIN b.st.map
    THEN fetch_value(b.st, b.st.map[key], fail)
    ELSE Result(b.st, None)

\* KvStore::get
get(st, key, fail) == get_built(build_map(st, fail), key, fail)

\* Faulty variant: remove counts as a write.
remove_written_counted(st, key) ==
    [write_all([st EXCEPT !.pos = seek_end(st)], Line(RemoveCmd(key)))
        EXCEPT !.map = remove_key(@, key),
               !.count_of_set = @ + 1]

\* remove once the record is written at the end of the file and the key
\* is taken out of the map
remove_written(st, key) ==
    [write_all([st EXCEPT !.pos = seek_end(st)], Line(RemoveCmd(key)))
        EXCEPT !.map = remove_key(@, key)]

\* remove once build_map has returned b
remove_built(b, key, fail) ==
    IF IsErr(b.out) THEN b
    ELSE IF key \notin DOMAIN b.st.map THEN Result(b.st, KeyNotFound(key))
    ELSE IF fail = "seek_end" THEN Result(b.st, FileOpenError)
    ELSE IF fail = "write"
    THEN Result([b.st EXCEPT !.pos = seek_end(b.st)], FileOpenError)
    ELSE Result(remove_written(b.st, key), Ok)

\* KvStore::remove
remove(st, key, fail) == remove_built(build_map(st, fail), key, fail)

\* Faulty variant: the file is opened with truncate(true).
open_file_truncated(f) == ""

\* OpenOptions read, write, create (no truncate): the content the file has
\* once it is open.
open_file(f) == f

\* KvStore::open: the fields of the new store
open(f) == [file |-> open_file(f), pos |-> 0, map |-> EmptyMap,
            is_build |-> FALSE, count_of_set |-> 0]

(***************************************************************************)
(* Views of the log used to state properties.                              *)
(***************************************************************************)
\* The lines of the file from byte offset p on.
RECURSIVE Lines(_, _)
LinesFrom(f, p, l) ==
    IF l = "" THEN << >> ELSE <<l>> \o Lines(f, p + Len(l))

Lines(f, p) == LinesFrom(f, p, read_line(f, p))

\* The number of records in the file: each ends with a newline.
RecCount(f) == Cardinality({i \in 1..Len(f) : SubSeq(f, i, i) = "\n"})

\* The commands the lines of the file decode to, in file order.
Decoded(ls) == [i \in DOMAIN ls |-> from_str(ls[i]).cmd]

Recs(f) == Decoded(Lines(f, 0))

\* The value of the last record for key k in the records rs: absent when
\* there is no record for k or the last one is a Remove.
LatestIn(rs, k) ==
    LET at == {i \in DOMAIN rs : rs[i].key = k}
        last == CHOOSE i \in at : \A j \in at : j <= i
    IN  IF at = {} THEN None
        ELSE IF rs[last].type = "Set" THEN Some(rs[last].value)
        ELSE None

Latest(f, k) == LatestIn(Recs(f), k)

\* The records rs hold a Remove, or a Set that a later Set of the same
\* key overwrites.
HasObsoleteIn(rs) ==
    \/ \E i \in DOMAIN rs : rs[i].type = "Remove"
    \/ \E i, j \in DOMAIN rs :
           i < j /\ rs[i].type = "Set" /\ rs[j].type = "Set"
                 /\ rs[i].key = rs[j].key

HasObsolete(f) == HasObsoleteIn(Recs(f))

\* The line at byte offset off of f is a well-formed Set record for k.
PointsToSetOf(c, k) == c.ok /\ c.cmd.type = "Set" /\ c.cmd.key = k

PointsToSet(f, off, k) == PointsToSetOf(from_str(read_line(f, off)), k)

\* A store that has just been opened on a file with content f.
Fresh(f) == [file |-> f, pos |-> 0, map |-> EmptyMap, is_build |-> FALSE,
             count_of_set |-> 0]

\* What get returns for each key on the store st, with all I/O working:
\* b is what the build_map that get starts with returns.
GetAllBuilt(b) == [k \in Keys |-> get_built(b, k, "none").out]

GetAll(st) == GetAllBuilt(build_map(st, "none"))

\* What get returns for each key after a replay of the log f into an
\* empty index.
ReplayView(f) == GetAll(Fresh(f))

(***************************************************************************)
(* Actions: one per public call.                                           *)
(***************************************************************************)
Commit(st) ==
    /\ file' = st.file
    /\ pos' = st.pos
    /\ map' = st.map
    /\ is_build' = st.is_build
    /\ count_of_set' = st.count_of_set

\* A call failed by fail is one in which the step fail was reached; it is
\* counted.
Reached(fail, out) ==
    /\ fail = "none" \/ out = FileOpenError
    /\ failed' = IF fail = "none" THEN failed ELSE failed + 1

\* The history of replays: none yet; after the call on st that starts with
\* build_map, which replays the log unless st.is_build; after the set that
\* reached line 108 in the store w, which runs compaction, and with it
\* build_map, if the counter is over the threshold.
NoReplays == [open |-> 0, compaction |-> 0]

AfterBuild(n, st) ==
    IF st.is_build THEN n
    ELSE [open |-> Min(n.open + 1, MaxReplaysNoted),
          compaction |-> Min(n.compaction + 1, MaxReplaysNoted)]

AfterSet(n, w) ==
    IF over_threshold(w.count_of_set)
    THEN [AfterBuild(n, w) EXCEPT !.compaction = 0]
    ELSE n

\* The store KvStore::open returns on a directory with no log file.
Init ==
    /\ file = open("").file
    /\ pos = open("").pos
    /\ map = open("").map
    /\ is_build = open("").is_build
    /\ count_of_set = open("").count_of_set
    /\ ret = <<"open">>
    /\ expect = [k \in Keys |-> {None}]
    /\ len_at_open = 0
    /\ failed = 0
    /\ set_calls = 0
    /\ replays = NoReplays

\* The store is dropped and a new one is opened on the same directory.
OpenNoting(n) ==
    /\ Commit(open(file))
    /\ ret' = <<"open">>
    /\ len_at_open' = n
    /\ set_calls' = 0
    /\ replays' = NoReplays
    /\ UNCHANGED <<expect, failed>>

Open == OpenNoting(len_at_open)

SetReturns(key, value, fail, r, n) ==
    /\ Reached(fail, r.out)
    /\ replays' = n
    /\ Commit(r.st)
    /\ ret' = <<"set", key, value, r.out>>
    /\ expect' = [expect EXCEPT ![key] =
                     IF IsErr(r.out) THEN @ \cup {Some(value)}
                     ELSE {Some(value)}]
    /\ set_calls' = IF IsErr(r.out) THEN set_calls
                    ELSE (set_calls + 1) % (Threshold + 1)
    /\ UNCHANGED len_at_open

Set(key, value, fail) ==
    \E order \in Orders :
        SetReturns(key, value, fail, set(Store, key, value, order, fail),
                   replays)

\* set with all I/O working, its replay counted
SetNoting(key, value) ==
    \E order \in Orders :
        SetReturns(key, value, "none", set(Store, key, value, order, "none"),
                   AfterSet(replays, Written(Store, key, value)))

GetReturns(key, fail, r, n) ==
    /\ Reached(fail, r.out)
    /\ replays' = n
    /\ Commit(r.st)
    /\ ret' = <<"get", key, r.out>>
    /\ UNCHANGED <<expect, len_at_open, set_calls>>

Get(key, fail) == GetReturns(key, fail, get(Store, key, fail), replays)

\* get with all I/O working, its replay counted
GetNoting(key) ==
    GetReturns(key, "none", get(Store, key, "none"),
               AfterBuild(replays, Store))

RemoveReturns(key, fail, r, n) ==
    /\ Reached(fail, r.out)
    /\ replays' = n
    /\ Commit(r.st)
    /\ ret' = <<"remove", key, r.out>>
    /\ expect' = [expect EXCEPT ![key] = IF r.out = Ok THEN {None} ELSE @]
    /\ UNCHANGED <<len_at_open, set_calls>>

Remove(key, fail) ==
    RemoveReturns(key, fail, remove(Store, key, fail), replays)

\* remove with all I/O working, its replay counted
RemoveNoting(key) ==
    RemoveReturns(key, "none", remove(Store, key, "none"),
                  AfterBuild(replays, Store))

\* Calls in which all I/O works, over any number of sessions.
Next ==
    \/ RecCount(file) < MaxLog /\ \E k \in Keys, v \in Values : Set(k, v, "none")
    \/ \E k \in Keys : Get(k, "none")
    \/ RecCount(file) < MaxLog /\ \E k \in Keys : Remove(k, "none")
    \/ Open

Spec == Init /\ [][Next]_vars

\* Calls in which any single I/O step may fail, in at most MaxFailures
\* calls.  The counter is unbounded when compaction keeps failing; set is
\* called while it is at most one above the threshold.
NextIO ==
    \/ /\ RecCount(file) < MaxLogIO
       /\ count_of_set <= Threshold + 1
       /\ \E k \in Keys, v \in Values : Set(k, v, "none")
    \/ \E k \in Keys : Get(k, "none")
    \/ /\ RecCount(file) < MaxLogIO
       /\ \E k \in Keys : Remove(k, "none")
    \/ Open
    \/ /\ failed < MaxFailures
       /\ RecCount(file) < MaxLogIO
       /\ \E k \in Keys, v \in Values, f \in FailPoints : Set(k, v, f)
    \/ /\ failed < MaxFailures
       /\ \E k \in Keys, f \in FailPoints : Get(k, f)
    \/ /\ failed < MaxFailures
       /\ RecCount(file) < MaxLogIO
       /\ \E k \in Keys, f \in FailPoints : Remove(k, f)

SpecIO == Init /\ [][NextIO]_vars

\* Sessions that use a single key and value, on a longer log; every open
\* notes the number of records it finds and every call counts its replay.
KeysOneKey == {"a"}
ValuesOneKey == {"1"}

NextOneKey ==
    \/ /\ RecCount(file) < MaxLogOneKey
       /\ \E k \in KeysOneKey, v \in ValuesOneKey : SetNoting(k, v)
    \/ \E k \in KeysOneKey : GetNoting(k)
    \/ /\ RecCount(file) < MaxLogOneKey
       /\ \E k \in KeysOneKey : RemoveNoting(k)
    \/ OpenNoting(RecCount(open_file(file)))

SpecOneKey == Init /\ [][NextOneKey]_vars

\* A store opened on any log of at most MaxReplayLen Set and Remove
\* records, then read.
ReplayValues == Values \cup {"333"}
ReplayCommands ==
    {SetCmd(k, v) : k \in Keys, v \in ReplayValues}
        \cup {RemoveCmd(k) : k \in Keys}

RECURSIVE Text(_)
Text(cmds) ==
    IF cmds = << >> THEN "" ELSE Line(Head(cmds)) \o Text(Tail(cmds))

InitReplay ==
    \E n \in 0..MaxReplayLen :
        \E cmds \in [1..n -> ReplayCommands] :
            /\ file = open(Text(cmds)).file
            /\ pos = open(Text(cmds)).pos
            /\ map = open(Text(cmds)).map
            /\ is_build = open(Text(cmds)).is_build
            /\ count_of_set = open(Text(cmds)).count_of_set
            /\ ret = <<"open">>
            /\ expect = [k \in Keys |-> {LatestIn(cmds, k)}]
            /\ len_at_open = n
            /\ failed = 0
            /\ set_calls = 0
            /\ replays = NoReplays

NextReplay ==
    \/ \E k \in Keys : Get(k, "none")
    \/ Open

SpecReplay == InitReplay /\ [][NextReplay]_vars

(***************************************************************************)
(* Properties.                                                             *)
(***************************************************************************)
\* The call that has just returned is a set that ran compaction: the
\* counter is zero after a successful set only if compaction reset it.
Compacted == ret[1] = "set" /\ ret[4] = Ok /\ count_of_set = 0

\* The log as it was when that compaction started: the log before the
\* set with the set's record appended.
PreCompaction == file \o Line(SetCmd(ret'[2], ret'[3]))

\* C1: with all I/O working the store behaves like a plain map: every get
\* returns the value of the latest set of its key, and absent if the key
\* was never set or was removed since.
C1_GetMatchesMap == ret[1] = "get" => expect[ret[2]] = {ret[3]}

\* C1 witness: a get returns the overwriting value from a compacted log
\* of two records.
C1_Witness ==
    /\ ret = <<"get", "a", Some("22")>>
    /\ count_of_set = 0
    /\ RecCount(file) = 2
    /\ expect["bb"] = {Some("1")}

\* C2: remove(k) returns Ok exactly when k is live and KeyNotFound{k}
\* otherwise, and after a successful remove(k) get(k) returns absent.
C2_RemoveExactlyLive ==
    [][ret'[1] = "remove" =>
          /\ ret'[3] = (IF expect[ret'[2]] # {None} THEN Ok
                        ELSE KeyNotFound(ret'[2]))
          /\ ret'[3] = Ok => get(Store', ret'[2], "none").out = None]_vars

\* C2 witness: a second remove of a key fails right after the first one
\* wrote its Remove record.
C2_Witness ==
    /\ ret = <<"remove", "a", KeyNotFound("a")>>
    /\ RecCount(file) > 1
    /\ Lines(file, 0)[RecCount(file)] = Line(RemoveCmd("a"))

\* C3: dropping the store and opening a new one on the same file leaves
\* the result of get unchanged for every key.
C3_ReopenPreservesGets ==
    [][ret'[1] = "open" => GetAll(Store') = GetAll(Store)]_vars

\* C3 witness: a store reopened on a log that holds a live key and a
\* removed key.
C3_Witness ==
    /\ ret = <<"open">>
    /\ RecCount(file) > 2
    /\ expect["a"] = {None}
    /\ expect["bb"] = {Some("22")}

\* C4: the mapping obtained by replaying the log is the same immediately
\* before and immediately after the compaction step.
C4_CompactionPreservesContent ==
    [][Compacted' => ReplayView(file') = ReplayView(PreCompaction)]_vars

\* C4 witness: a compaction has just rewritten a log with two live keys,
\* one of them overwritten before.
C4_Witness ==
    /\ Compacted
    /\ RecCount(file) = 2
    /\ expect["a"] = {Some("22")}
    /\ expect["bb"] = {Some("1")}

\* C5: a replay into an empty index makes get(k) return the value of the
\* last Set record for k if no Remove record for k follows it, and absent
\* otherwise, for any log of Set and Remove records.
C5_ReplayLastWins == ret[1] = "get" => ret[3] = Latest(file, ret[2])

\* C5 witness: the log Set(a,1), Set(a,22), Remove(a), Set(a,333) replayed
\* and read.
C5_Witness ==
    /\ file = Text(<<SetCmd("a", "1"), SetCmd("a", "22"), RemoveCmd("a"),
                     SetCmd("a", "333")>>)
    /\ ret = <<"get", "a", Some("333")>>

\* C6 (as claimed): after a call in which an I/O step failed, every get in
\* which all I/O works returns, for its key, the value the key had before
\* the failed call, or the value a failed set was writing.
C6_GetAfterFailure ==
    (ret[1] = "get" /\ ret[3] # FileOpenError) => ret[3] \in expect[ret[2]]

\* The bound of C7 for K keys.
LogBound(K) == 2 * (K + Threshold + 1)

\* C7 (as claimed): over any number of sessions the number of records in
\* the log never exceeds 2 * (K + Threshold + 1).
C7_LogBounded == RecCount(file) <= LogBound(Cardinality(KeysOneKey))

\* C7 (amended): within one session the number of records in the log never
\* exceeds the number found at open by more than 2 * (K + Threshold + 1).
C7_LogBoundedInSession ==
    RecCount(file) <= len_at_open + LogBound(Cardinality(KeysOneKey))

\* C7 witness: a session opened on an empty log has compacted and then
\* grown the log to six records.
C7_Witness == len_at_open = 0 /\ RecCount(file) = 6 /\ count_of_set = Threshold

\* The log after is no larger than the log before, in records and in
\* bytes, and smaller in both if the log before holds an obsolete record.
NoLargerCounted(before, n, after, m) ==
    /\ m <= n
    /\ Len(after) <= Len(before)
    /\ HasObsolete(before) => m < n /\ Len(after) < Len(before)

NoLarger(before, after) ==
    NoLargerCounted(before, RecCount(before), after, RecCount(after))

\* C8: the log is no larger, in records and in bytes, right after a
\* compaction than right before it, and smaller in both whenever the log
\* before held a Remove record or an overwritten Set record.
C8_CompactionShrinks ==
    [][Compacted' => NoLarger(PreCompaction, file')]_vars

\* C8 witness: a compaction has cut a log with a removed key down to one
\* record.
C8_Witness ==
    /\ Compacted
    /\ RecCount(file) = 1
    /\ \E k \in Keys : expect[k] = {None} /\ ret[2] # k

\* Every entry of the index holds the offset of a well-formed Set record
\* for its key.
IndexPointsToSets == \A k \in DOMAIN map : PointsToSet(file, map[k], k)

\* C9 (as claimed): in every reachable state every index entry points to
\* a well-formed Set record for its key.
C9_IndexValid == IndexPointsToSets

\* C9 (amended): whenever the built flag is true, every index entry
\* points to a well-formed Set record for its key.
C9_IndexValidWhenBuilt == is_build => IndexPointsToSets

\* C9 witness: the index is built and holds both keys, on a log in which
\* one of them was overwritten.
C9_Witness ==
    /\ is_build
    /\ DOMAIN map = Keys
    /\ RecCount(file) > 2
    /\ \A k \in Keys : map[k] > 0

\* Every key that is not in the index has no live value in the log.
AbsentKeysAreDead == \A k \in Keys \ DOMAIN map : Latest(file, k) = None

\* C10 (as claimed): in every reachable state a key absent from the index
\* has no live value in the log.
C10_AbsentIsDead == AbsentKeysAreDead

\* C10 (amended): whenever the built flag is true, a key absent from the
\* index has no live value in the log.
C10_AbsentIsDeadWhenBuilt == is_build => AbsentKeysAreDead

\* C10 witness: the index is built and lacks a key whose last record in
\* the log is a Remove.
C10_Witness ==
    /\ is_build
    /\ "a" \notin DOMAIN map
    /\ "bb" \in DOMAIN map
    /\ \E i \in DOMAIN Recs(file) : Recs(file)[i] = RemoveCmd("a")

\* The fetch of key through the index of st reads the first byte of a
\* complete Set record for key (nothing to show if the index lacks key).
FetchIsValid(st, key) ==
    key \in DOMAIN st.map => PointsToSet(st.file, st.map[key], key)

\* Every fetch of the compaction that a set runs in the store w (if it
\* runs one) is valid: b is what compaction's build_map returns.
CompactionFetchesValid(w, b) ==
    over_threshold(w.count_of_set) =>
        \A k \in DOMAIN b.st.map : FetchIsValid(b.st, k)

\* What the call noted in r returned; open returns the store.
Outcome(r) == IF r[1] = "open" THEN Ok ELSE r[Len(r)]

\* The call returned the outcome of a record that does not decode to a Set.
IsCorrupt(out) == out = CommandConvertError \/ out = UnknownError

\* C11: with all I/O working no call returns the corrupt-record outcome,
\* and every offset through which get or compaction fetches a record is
\* the first byte of a complete Set record for the key looked up.
C11_FetchesValid ==
    [][/\ ~IsCorrupt(Outcome(ret'))
       /\ ret'[1] = "get" =>
              FetchIsValid(build_map(Store, "none").st, ret'[2])
       /\ ret'[1] = "set" =>
              CompactionFetchesValid(
                  Written(Store, ret'[2], ret'[3]),
                  build_map(Written(Store, ret'[2], ret'[3]), "none"))]_vars

\* C11 witness: after a compaction that wrote two records, a get has
\* replayed the new log and fetched a key through its second record.
C11_Witness ==
    /\ ret[1] = "get" /\ ret[3] # None
    /\ count_of_set = 0
    /\ is_build
    /\ RecCount(file) = 2
    /\ map[ret[2]] > 0

\* The set that has just returned left the store w untouched: no
\* compaction ran in it.
RanNoCompaction(w) == Store' = w

\* The set that has just returned ran compaction on the store w and
\* reset the counter.
RanCompaction(w) ==
    \E order \in Orders :
        Store' = set_compacted(compaction(w, order, "none")).st

\* The set that has just returned Ok had incremented the counter by one
\* in w; it ran compaction if it is the (Threshold + 1)th successful set
\* since open or since the previous compaction, and the counter is then
\* zero; otherwise it ran none.
SetOnCycle(w) ==
    /\ w.count_of_set = count_of_set + 1
    /\ IF set_calls' = 0
       THEN RanCompaction(w) /\ count_of_set' = 0
       ELSE RanNoCompaction(w) /\ count_of_set' = count_of_set + 1

\* C12: every successful set increments the counter by one; compaction
\* runs inside the set exactly on every (Threshold + 1)th successful set
\* since open, that is the (Threshold + 1)th since open or since the
\* previous compaction, and the counter is zero after it.
C12_CompactionTrigger ==
    [][(ret'[1] = "set" /\ ret'[4] = Ok) =>
           SetOnCycle(Written(Store, ret'[2], ret'[3]))]_vars

\* C12 witness: the third set of one key in a session has compacted the
\* log to a single record.
C12_Witness ==
    /\ ret = <<"set", "bb", "22", Ok>>
    /\ set_calls = 0
    /\ count_of_set = 0
    /\ file = Line(SetCmd("bb", "22"))
    /\ ~is_build

\* C13 (as claimed): over the calls on one store instance the log is
\* replayed at most once.
C13_ReplayOncePerOpen == replays.open <= 1

\* C13 (amended): the log is replayed at most once after open and at most
\* once after each compaction; a call on a built index replays nothing.
C13_ReplayOncePerRewrite ==
    /\ replays.compaction <= 1
    /\ is_build => replays.compaction = 1

\* C13 witness: the session has replayed the log, compacted it and
\* replayed the compacted log.
C13_Witness ==
    /\ replays = [open |-> 2, compaction |-> 1]
    /\ is_build
    /\ ret[1] = "get"

\* The lines ls are complete records: each decodes and is the text of the
\* command it decodes to.
WellFormed(ls) ==
    \A i \in DOMAIN ls :
        from_str(ls[i]).ok /\ ls[i] = Line(from_str(ls[i]).cmd)

\* The records rs are one Set record for each key that is live in the
\* records old, with the value it has there, and nothing else.
OneSetPerLiveKey(rs, old) ==
    /\ \A i \in DOMAIN rs : rs[i].type = "Set" /\ rs[i].key \in Keys
    /\ \A k \in Keys :
           IF LatestIn(old, k) = None
           THEN \A i \in DOMAIN rs : rs[i].key # k
           ELSE /\ \E i \in DOMAIN rs : rs[i].key = k
                /\ \A i, j \in DOMAIN rs :
                       (rs[i].key = k /\ rs[j].key = k) => i = j
                /\ \A i \in DOMAIN rs :
                       rs[i].key = k => Some(rs[i].value) = LatestIn(old, k)

\* C14: right after a compaction the log is exactly one Set record for
\* each key that was live right before it, with that key's latest value,
\* in any order: no Remove record and no second record for a key.
C14_CompactedLogIsLiveSet ==
    [][Compacted' =>
           /\ \A ls \in {Lines(file', 0)} : WellFormed(ls)
           /\ \A rs \in {Recs(file')}, old \in {Recs(PreCompaction)} :
                  OneSetPerLiveKey(rs, old)]_vars

\* C14 witness: a compaction of a log in which one key was removed and
\* set again has written the two live keys, the later key first.
C14_Witness ==
    /\ Compacted
    /\ ret[2] = "a"
    /\ file = Line(SetCmd("bb", "1")) \o Line(SetCmd("a", "22"))

\* C15: a successful set that runs no compaction and a successful remove
\* leave the log as it was with exactly their one record appended,
\* wherever an earlier open, fetch, replay or compaction left the cursor.
C15_AppendOnly ==
    [][/\ (ret'[1] = "set" /\ ret'[4] = Ok /\ ~Compacted') =>
              file' = file \o Line(SetCmd(ret'[2], ret'[3]))
       /\ (ret'[1] = "remove" /\ ret'[3] = Ok) =>
              file' = file \o Line(RemoveCmd(ret'[2]))]_vars

\* C15 witness: the first set of a session opened on a log of two records,
\* called with the cursor at the start of the file, has appended the third.
C15_Witness ==
    /\ ret[1] = "set" /\ ret[4] = Ok
    /\ set_calls = 1
    /\ ~is_build
    /\ RecCount(file) = 3
    /\ pos = Len(file)

\* The byte offset at which line i of the lines ls starts.
RECURSIVE OffsetOfLine(_, _)
OffsetOfLine(ls, i) ==
    IF i <= 1 THEN 0 ELSE OffsetOfLine(ls, i - 1) + Len(ls[i - 1])

\* The index m holds exactly the keys that are live in the lines ls, each
\* with the offset of its last Set record.
IsIndexOfLines(m, ls, rs) ==
    /\ DOMAIN m = {k \in Keys : LatestIn(rs, k) # None}
    /\ \A k \in DOMAIN m :
           \E i \in DOMAIN rs :
               /\ rs[i].type = "Set" /\ rs[i].key = k
               /\ \A j \in DOMAIN rs : rs[j].key = k => j <= i
               /\ m[k] = OffsetOfLine(ls, i)

IsIndexOf(m, ls) == IsIndexOfLines(m, ls, Decoded(ls))

\* The index is built and is the replay of the log into an empty index
\* (fresh); or it is not built, holds only live keys, and a replay on top
\* of it gives what a replay into an empty index gives.
IndexMatchesLog(fresh, ls) ==
    /\ IsIndexOf(fresh, ls)
    /\ IF is_build THEN map = fresh
       ELSE /\ DOMAIN map \subseteq DOMAIN fresh
            /\ replay(file, map, 0).map = fresh

\* C16: whenever the built flag is true the index is the result of
\* replaying the current log into an empty index, with the same keys and
\* for each key the offset of its last Set record; whenever it is false
\* every key of the index is live in the log and a replay on top of the
\* index yields the same index as a replay into an empty one.
C16_IndexIsReplay ==
    \A fresh \in {replay(file, EmptyMap, 0).map}, ls \in {Lines(file, 0)} :
        IndexMatchesLog(fresh, ls)

\* C16 witness: after a compaction the index is not built and holds both
\* keys, one of them with an offset that is no record of the new log.
C16_Witness ==
    /\ ~is_build
    /\ DOMAIN map = Keys
    /\ count_of_set = 0
    /\ \E k \in Keys : ~PointsToSet(file, map[k], k)

\* C17: a remove, whether it returns Ok or KeyNotFound, leaves the counter
\* of sets as it was and neither cuts nor rewrites the log: the log before
\* it is a prefix of the log after it, at any counter value and after any
\* number of removes.
C17_RemoveLeavesCounter ==
    [][ret'[1] = "remove" =>
           /\ count_of_set' = count_of_set
           /\ StartsWith(file', file)
           /\ RecCount(file') = RecCount(file) + (IF ret'[3] = Ok THEN 1 ELSE 0)
      ]_vars

\* C17 witness: with the counter at the threshold two removes have grown
\* the log to four records, more than a compaction would have left.
C17_Witness ==
    /\ ret[1] = "remove" /\ ret[3] = Ok
    /\ count_of_set = Threshold
    /\ RecCount(file) = 4
    /\ DOMAIN map = {}

\* C18: with all I/O working the counter is between 0 and the threshold at
\* every operation boundary and equals the number of successful sets
\* since open or since the last compaction, whichever is later.  set_calls
\* counts the successful sets since open modulo Threshold + 1; compaction
\* runs exactly on the sets at which it returns to 0, so it is the number
\* of sets since the later of the two.
C18_CounterCountsSets ==
    /\ 0 <= count_of_set
    /\ count_of_set <= Threshold
    /\ count_of_set = set_calls

\* C18 witness: a session opened on an empty log has compacted and then
\* made two more sets: the log has three records and the counter is two.
C18_Witness ==
    /\ len_at_open = 0
    /\ ~is_build
    /\ RecCount(file) = 3
    /\ count_of_set = Threshold
    /\ set_calls = Threshold

\* The call that returns in this step is a get, or a remove that fails
\* with KeyNotFound.
ReadOnlyCall ==
    \/ ret'[1] = "get"
    \/ ret'[1] = "remove" /\ ret'[3] = KeyNotFound(ret'[2])

\* The step leaves the log, the counter and the result of get for every
\* key as they were.
LogAndGetsUnchanged ==
    /\ file' = file
    /\ count_of_set' = count_of_set
    /\ GetAll(Store') = GetAll(Store)

\* C19 (as claimed): a get and a remove that fails with KeyNotFound leave
\* the log and the result of get for every key as they were, and change
\* no state other than the index and its built flag.
C19_ReadsChangeIndexOnly ==
    [][ReadOnlyCall => LogAndGetsUnchanged /\ pos' = pos]_vars

\* C19 (amended): a get and a remove that fails with KeyNotFound leave
\* the log, the counter and the result of get for every key as they were;
\* they may change the index, its built flag and the file cursor.
C19_ReadsLeaveLog ==
    [][ReadOnlyCall => LogAndGetsUnchanged]_vars

\* C19 witness: a get on a log of three records has built the index and
\* fetched a record, and has left the cursor inside the file.
C19_Witness ==
    /\ ret[1] = "get" /\ ret[3] # None
    /\ is_build
    /\ RecCount(file) = 3
    /\ 0 < pos /\ pos < Len(file)

====
